---- MODULE Spec2Model ----
(***************************************************************************)
(* Model of the two coffee-price pipelines of cotacoes-cafe-cacau:         *)
(*   scripts/coletar_cafe_cepea.py  (history-aware pipeline)               *)
(*   scrape_prices.py               (simple pipeline)                      *)
(*                                                                         *)
(* Data representation.  A Python string whose fields are fixed-width and  *)
(* zero-padded is a sequence of numbers, compared the way Python compares  *)
(* strings (StrLess): an ISO date "2025-09-04" is <<2025, 9, 4>>, an ISO   *)
(* timestamp "2025-09-04T10:..." is <<2025, 9, 4, 10>> followed by the     *)
(* finer fields the model tells apart, a widget date "04/09/2025" is       *)
(* <<4, 9, 2025>>.  The empty string is the empty sequence.                *)
(*                                                                         *)
(* Fields of a record (a dict of the history list):                        *)
(*   referente_a  a date string, << >> being "";                           *)
(*   coletado_em  a timestamp string, << >> being "";                      *)
(*   valor        <<v>> for the number v, << >> for null;                  *)
(*   lacks        the keys among "referente_a", "coletado_em" and "valor"  *)
(*                that the dict does not have (r["..."] raises KeyError);  *)
(*   nulls        the keys among "referente_a" and "coletado_em" whose     *)
(*                value is null;                                           *)
(*                the field of a key in lacks or nulls is << >>, which is  *)
(*                what r.get(key) or "" gives.                             *)
(* In the cafe object of the summary << >> stands for a missing key and    *)
(* for null.                                                               *)
(***************************************************************************)
EXTENDS Integers, Sequences, FiniteSets, TLC

VARIABLES
    histFile,   \* data/precos.json : [kind, rows]
    sumFile,    \* data/prices.json : [kind, cafe, ultima_atualizacao]
    indexFile,  \* index.html : [kind, arabica, robusta]
    status,     \* what the last step was / how the last run ended
    wrote,      \* which files the last run has rewritten: [hist, sum]
    pre,        \* what the last run of coletar_cafe_cepea.py started from
    cold,       \* that run saved the merge of its candidates alone
    rows,       \* input of the function applied (pure-function specifications)
    merged,     \* its result (pure-function specifications)
    fetchSt,    \* state of one fetch(url) call
    lastCall,   \* the update_history call of the last run of scrape_prices.py
    written     \* every referente_a update_history has written so far

vars == <<histFile, sumFile, indexFile, status, wrote, pre, cold, rows, merged,
          fetchSt, lastCall, written>>

----------------------------------------------------------------------------
(* Values *)

None == << >>

Some(v) == <<v>>

\* Python's < on two strings, each given as its sequence of fixed-width fields.
RECURSIVE StrLess(_, _)
StrLess(a, b) ==
    IF b = << >> THEN FALSE
    ELSE IF a = << >> THEN TRUE
    ELSE IF Head(a) # Head(b) THEN Head(a) < Head(b)
    ELSE StrLess(Tail(a), Tail(b))

StrLeq(a, b) == a = b \/ StrLess(a, b)

\* s[:10] of an ISO timestamp: its date part.
Prefix10(s) == SubSeq(s, 1, IF Len(s) < 3 THEN Len(s) ELSE 3)

\* Python's < on the two tipo strings ("arabica" < "conillon").
TipoRank(t) == IF t = "" THEN 0 ELSE IF t = "arabica" THEN 1 ELSE 2

Tipos == {"arabica", "conillon"}

\* One element of the history list.  dict = FALSE is a JSON value that is no
\* object (a number, a string); then the other fields mean nothing.
Row(tipo, valor, ref, col) ==
    [tipo |-> tipo, valor |-> valor, coletado_em |-> col,
     dict |-> TRUE, produto |-> "cafe", referente_a |-> ref, lacks |-> {},
     nulls |-> {}]

NotADict ==
    [tipo |-> "", valor |-> None, coletado_em |-> None,
     dict |-> FALSE, produto |-> "", referente_a |-> None, lacks |-> {},
     nulls |-> {}]

\* The record r of another product of the same file ("cacau").
OfProduto(r, p) == [r EXCEPT !.produto = p]

\* The dict r without the key k.
Without(r, k) == [r EXCEPT !.lacks = @ \cup {k}, ![k] = None]

\* r[k] raises KeyError.
Lacks(r, k) == k \in r.lacks

\* The dict r with null at the key k.
WithNull(r, k) == [r EXCEPT !.nulls = @ \cup {k}, ![k] = None]

\* r["coletado_em"] raises KeyError or is None, which can be neither sliced
\* nor compared (TypeError).
NoString(r) == Lacks(r, "coletado_em") \/ "coletado_em" \in r.nulls

SeqToSet(s) == {s[i] : i \in 1..Len(s)}

----------------------------------------------------------------------------
(* coletar_cafe_cepea.py : dedup *)

\* r.get("referente_a") or r["coletado_em"][:10]
EffectiveDate(r) ==
    IF r.referente_a # None THEN r.referente_a ELSE Prefix10(r.coletado_em)

\* key = (produto, tipo, referente_a or coletado_em[:10])
DedupKey(r) == <<r.produto, r.tipo, EffectiveDate(r)>>

\* Mutant: the first row of a key is kept, whatever its coletado_em.
ReplacesPrevFirstWins(r, prev) == FALSE

\* r["coletado_em"] > prev["coletado_em"]
ReplacesPrev(r, prev) == StrLess(prev.coletado_em, r.coletado_em)

\* The for loop of dedup.  d is the dict's values in insertion order (a Python
\* dict keeps a key's position when its value is replaced).  err: the loop
\* raised (r.get on a value that is no dict, r["coletado_em"] on a dict that
\* has none, slicing or comparing a coletado_em that is None).
RECURSIVE DedupLoop(_, _)
DedupLoop(rs, d) ==
    IF rs = << >> THEN [d |-> d, err |-> FALSE]
    ELSE LET r == Head(rs) IN
         IF ~r.dict \/ (r.referente_a = None /\ NoString(r))
         THEN [d |-> d, err |-> TRUE]
         ELSE LET key == DedupKey(r)
                  hit == {i \in 1..Len(d) : DedupKey(d[i]) = key}
              IN IF hit = {} THEN DedupLoop(Tail(rs), Append(d, r))
                 ELSE LET i == CHOOSE j \in hit : TRUE IN
                      IF NoString(r) \/ NoString(d[i])
                      THEN [d |-> d, err |-> TRUE]
                      ELSE IF ReplacesPrev(r, d[i])
                      THEN DedupLoop(Tail(rs), [d EXCEPT ![i] = r])
                      ELSE DedupLoop(Tail(rs), d)

\* x.get("referente_a") or ""
SortDate(x) == IF x.referente_a # None THEN x.referente_a ELSE None

\* Python's < on the sort keys ((referente_a or ""), tipo, coletado_em).
SortKeyLess(x, y) ==
    \/ StrLess(SortDate(x), SortDate(y))
    \/ /\ SortDate(x) = SortDate(y)
       /\ \/ TipoRank(x.tipo) < TipoRank(y.tipo)
          \/ /\ x.tipo = y.tipo
             /\ StrLess(x.coletado_em, y.coletado_em)

\* sorted() is stable: x goes before the first element greater than it.
RECURSIVE InsertSorted(_, _)
InsertSorted(s, x) ==
    IF s = << >> THEN <<x>>
    ELSE IF SortKeyLess(x, Head(s)) THEN <<x>> \o s
    ELSE <<Head(s)>> \o InsertSorted(Tail(s), x)

RECURSIVE SortedRows(_)
SortedRows(s) ==
    IF s = << >> THEN << >>
    ELSE InsertSorted(SortedRows(SubSeq(s, 1, Len(s) - 1)), s[Len(s)])

\* sorted() of line 182 raises.  The key reads x["coletado_em"] of every row
\* (KeyError).  Two rows whose (referente_a or "") and tipo are equal (rows of
\* different products) are neighbours in the order, so sorted() compares their
\* coletado_em: None against a string raises TypeError, None against None is
\* equal and raises nothing.
SortRaises(d) ==
    \/ \E i \in 1..Len(d) : Lacks(d[i], "coletado_em")
    \/ \E i, j \in 1..Len(d) :
           /\ SortDate(d[i]) = SortDate(d[j])
           /\ d[i].tipo = d[j].tipo
           /\ "coletado_em" \in d[i].nulls
           /\ "coletado_em" \notin d[j].nulls

\* dedup(rows): [err, rows].
dedup(rs) ==
    LET l == DedupLoop(rs, << >>) IN
    IF l.err \/ SortRaises(l.d)
    THEN [rows |-> << >>, err |-> TRUE]
    ELSE [rows |-> SortedRows(l.d), err |-> FALSE]

----------------------------------------------------------------------------
(* coletar_cafe_cepea.py : the files *)

MissingFile == [rows |-> << >>, kind |-> "missing"]

ListFile(rs) == [rows |-> rs, kind |-> "list"]

\* The kinds of content of the history file: "missing"; "undecodable" (bytes
\* that are not UTF-8); "garbage" (text that is not JSON); "empty_nonlist" (the
\* JSON values {} and ""); "nonlist" (any other JSON value that is no list);
\* "list".

\* load_history: a missing file and unparseable content give []; otherwise
\* whatever JSON value the file holds is returned.
load_history(f) ==
    IF f.kind \in {"missing", "undecodable", "garbage"}
    THEN [rows |-> << >>, list |-> TRUE]
    ELSE IF f.kind \in {"empty_nonlist", "nonlist"}
    THEN [rows |-> << >>, list |-> FALSE]
    ELSE [rows |-> f.rows, list |-> TRUE]

EmptyCafe == [arabica |-> None, date |-> None, robusta |-> None]

NoSummary == [kind |-> "missing", cafe |-> EmptyCafe, ultima_atualizacao |-> None]

\* index.html is not there (the pipeline of this script never touches it).
NoIndex == [kind |-> "missing", arabica |-> None, robusta |-> None]

----------------------------------------------------------------------------
(* coletar_cafe_cepea.py : update_price_summary *)

NoLatest == [t \in Tipos |-> None]

\* Mutant: the first record of a variant is kept, whatever its date.
NewerThanLatestNever(ref_date, prev) == FALSE

\* ref_date > latest[tipo]["ref_date"]
NewerThanLatest(ref_date, prev) == StrLess(prev.ref_date, ref_date)

\* The for loop of update_price_summary: [err, latest], latest[tipo] being
\* << >> (tipo not in latest) or <<[valor, ref_date]>>.  err: r["coletado_em"]
\* or r["valor"] raised KeyError, None was sliced, or r is no dict.
RECURSIVE LatestLoop(_, _)
LatestLoop(rs, latest) ==
    IF rs = << >> THEN [err |-> FALSE, latest |-> latest]
    ELSE LET r == Head(rs) IN
         IF ~r.dict THEN [err |-> TRUE, latest |-> latest]
         ELSE IF r.produto # "cafe" THEN LatestLoop(Tail(rs), latest)
         ELSE IF r.referente_a = None /\ NoString(r)
         THEN [err |-> TRUE, latest |-> latest]
         ELSE LET ref_date == EffectiveDate(r) IN
              IF latest[r.tipo] = None
                 \/ NewerThanLatest(ref_date, latest[r.tipo][1])
              THEN IF Lacks(r, "valor") THEN [err |-> TRUE, latest |-> latest]
                   ELSE LatestLoop(Tail(rs),
                            [latest EXCEPT ![r.tipo] =
                                <<[valor |-> r.valor, ref_date |-> ref_date]>>])
              ELSE LatestLoop(Tail(rs), latest)

\* Lines 200-206: the date of the newer of the two variants.
SummaryDate(latest) ==
    IF latest["arabica"] # None /\ latest["conillon"] # None
    THEN IF StrLeq(latest["conillon"][1].ref_date, latest["arabica"][1].ref_date)
         THEN latest["arabica"][1].ref_date
         ELSE latest["conillon"][1].ref_date
    ELSE IF latest["arabica"] # None THEN latest["arabica"][1].ref_date
    ELSE IF latest["conillon"] # None THEN latest["conillon"][1].ref_date
    ELSE None

\* Mutant: the cafe object is rebuilt from this run's rows alone.
MergeCafeFresh(cafe, latest) ==
    [arabica |-> IF latest["arabica"] # None
                 THEN latest["arabica"][1].valor ELSE None,
     date    |-> SummaryDate(latest),
     robusta |-> IF latest["conillon"] # None
                 THEN latest["conillon"][1].valor ELSE None]

\* Lines 207-212: only the fields this run has data for are overwritten.
MergeCafe(cafe, latest) ==
    [arabica |-> IF latest["arabica"] # None
                 THEN latest["arabica"][1].valor ELSE cafe.arabica,
     date    |-> IF SummaryDate(latest) # None
                 THEN SummaryDate(latest) ELSE cafe.date,
     robusta |-> IF latest["conillon"] # None
                 THEN latest["conillon"][1].valor ELSE cafe.robusta]

\* update_price_summary(rows) on the summary file f: [err, file].  A missing
\* or unparseable file is {}; a JSON value that is no object makes
\* summary.get raise.
update_price_summary(rs, f) ==
    LET l == LatestLoop(rs, NoLatest) IN
    IF l.err \/ f.kind = "nonobj" THEN [err |-> TRUE, file |-> f]
    ELSE LET summary == IF f.kind = "obj" THEN f ELSE NoSummary IN
         [err  |-> FALSE,
          file |-> [kind |-> "obj",
                    cafe |-> MergeCafe(summary.cafe, l.latest),
                    ultima_atualizacao |-> summary.ultima_atualizacao]]

----------------------------------------------------------------------------
(* coletar_cafe_cepea.py : the candidate producer *)

\* A reading of the clock during a run: the k-th datetime.now() made while
\* the variant of the given phase (1 arabica, 2 conillon) is collected.  now
\* is the clock down to the hour; every reading is later than the one before.
Clock(now, phase, k) == now \o <<phase, k>>

\* parse_hist_from_text: one record per block of the page that shows a price
\* (line 55), each stamped with its own datetime.now() (line 63), after k
\* earlier readings; a block whose date did not parse has referente_a null.
RECURSIVE Stamp(_, _, _, _, _)
Stamp(items, tipo, now, phase, k) ==
    IF items = << >> THEN << >>
    ELSE LET b == Head(items) IN
         IF b.valor = None THEN Stamp(Tail(items), tipo, now, phase, k)
         ELSE LET row == Row(tipo, b.valor, b.referente_a,
                             Clock(now, phase, k + 1))
              IN <<IF b.referente_a = None THEN WithNull(row, "referente_a")
                   ELSE row>>
                 \o Stamp(Tail(items), tipo, now, phase, k + 1)

\* Lines 134-143: every item of the answer gets produto and tipo, and keeps
\* its coletado_em unless that is missing or empty, when it gets now_iso
\* (rounding to two decimals leaves the model's whole prices as they are).
RECURSIVE Normalize(_, _, _)
Normalize(items, tipo, now_iso) ==
    IF items = << >> THEN << >>
    ELSE LET r == Head(items)
             row == Row(tipo, r.valor, r.referente_a,
                        IF r.coletado_em # None THEN r.coletado_em ELSE now_iso)
         IN <<[row EXCEPT !.lacks = r.lacks \ {"coletado_em"},
                          !.nulls = r.nulls \ {"coletado_em"}]>>
            \o Normalize(Tail(items), tipo, now_iso)

\* extract_with_openai: [err, items].  Without OPENAI_API_KEY it returns [];
\* now_iso is read once, after the answer has arrived (line 133).
extract_with_openai(ai, tipo, now_iso) ==
    IF ~ai.key THEN [err |-> FALSE, items |-> << >>]
    ELSE IF ai.err THEN [err |-> TRUE, items |-> << >>]
    ELSE [err |-> FALSE, items |-> Normalize(ai.items, tipo, now_iso)]

\* parse_with_fallback, after parse_page_direct has returned `items`.
parse_with_fallback(items, ai, tipo, now_iso) ==
    LET e == extract_with_openai(ai, tipo, now_iso) IN
    IF items = << >> THEN (IF e.err THEN items ELSE e.items)
    ELSE IF Len(items) <= 2 /\ ai.key
    THEN (IF e.err THEN items ELSE items \o e.items)
    ELSE items

\* What one variant contributes to rows in main: [err, rows].  No URL in the
\* environment skips the variant; a fetch that fails after its retries raises.
Collect(src, tipo, now, phase) ==
    IF ~src.url THEN [rows |-> << >>, err |-> FALSE]
    ELSE IF ~src.fetchOk THEN [rows |-> << >>, err |-> TRUE]
    ELSE LET items == Stamp(src.direct, tipo, now, phase, 0) IN
         [rows |-> parse_with_fallback(items, src.ai, tipo,
                                       Clock(now, phase, Len(items) + 1)),
          err |-> FALSE]

----------------------------------------------------------------------------
(* coletar_cafe_cepea.py : main, and what it is run on *)

\* Bounds of the model: the length of the history listing a source page shows.
ListDays == 10

Day(i) == <<2025, 9, i>>

\* The clock of the runs, down to the hour.
Nows == {<<2025, 9, 12, 10>>, <<2025, 9, 13, 10>>}

\* The quotation a page shows for a variant and a trading day at a run.
Quote(tipo, day, now) == 1000 * TipoRank(tipo) + 10 * day + (now[3] - 11)

\* A block of a page as parse_hist_from_text reads it: referente_a << >> when
\* no date parses, valor << >> when none of the next ten lines shows a price.
Item(ref, valor) == [valor |-> valor, referente_a |-> ref]

\* An item of the extraction service's answer; coletado_em << >> is a missing
\* key, null or "".
AIItem(ref, valor, col) ==
    [valor |-> valor, coletado_em |-> col, referente_a |-> ref, lacks |-> {},
     nulls |-> {}]

\* A coletado_em of the answer's own, older than every run.
AIOldStamp == <<2020, 1, 1, 0>>

NoAI == [err |-> FALSE, key |-> FALSE, items |-> << >>]

Source(direct, ai) == [ai |-> ai, url |-> TRUE, fetchOk |-> TRUE, direct |-> direct]

UrlUnset == [ai |-> NoAI, url |-> FALSE, fetchOk |-> TRUE, direct |-> << >>]

FetchFails == [ai |-> NoAI, url |-> TRUE, fetchOk |-> FALSE, direct |-> << >>]

\* A page with one "Fechamento: dd/mm/yyyy" block per trading day 1..ListDays.
Listing(tipo, now) ==
    Source([i \in 1..ListDays |-> Item(Day(i), Some(Quote(tipo, i, now)))], NoAI)

\* A page with the one block of trading day i.
DayPage(tipo, i, now) ==
    Source(<<Item(Day(i), Some(Quote(tipo, i, now)))>>, NoAI)

\* A block whose date could not be parsed: referente_a is None.
UndatedPage(tipo, now) == Source(<<Item(None, Some(Quote(tipo, 0, now)))>>, NoAI)

\* Nothing parsed directly (no block, or one block without a price); the
\* extraction service answers with an item that has no valor, or fails (zero
\* candidates).
AINoValor(i) ==
    Source(<< >>, [err |-> FALSE, key |-> TRUE,
                   items |-> <<Without(AIItem(Day(i), None, None), "valor")>>])

AIFails ==
    Source(<<Item(Day(11), None)>>,
           [err |-> TRUE, key |-> TRUE, items |-> << >>])

\* One block parsed directly, and the extraction service answers with the
\* same day at another value, its item carrying the coletado_em col.
DayPagePlusAI(tipo, i, now, col) ==
    Source(<<Item(Day(i), Some(Quote(tipo, i, now)))>>,
           [err |-> FALSE,
            key |-> TRUE,
            items |-> <<AIItem(Day(i), Some(Quote(tipo, i, now) + 5), col)>>])

ArabicaSources(now) ==
    {UrlUnset, FetchFails, AIFails, AINoValor(11), Listing("arabica", now),
     DayPage("arabica", 12, now), UndatedPage("arabica", now),
     DayPagePlusAI("arabica", 12, now, AIOldStamp)}

ConillonSources(now) == {UrlUnset, DayPagePlusAI("conillon", 11, now, None)}

NoRun == [hist |-> FALSE, sum |-> FALSE]

\* The history file holds something else than a list of records that have
\* the fields the pipeline reads.
WellFormedRow(r) == r.dict /\ ~NoString(r) /\ ~Lacks(r, "valor")

Malformed(f) ==
    \/ f.kind \in {"undecodable", "garbage", "empty_nonlist", "nonlist"}
    \/ f.kind = "list" /\ \E i \in 1..Len(f.rows) : ~WellFormedRow(f.rows[i])

\* What a run starts from: the cafe object of the summary on disk (empty when
\* the file is missing or holds no JSON object) and whether the history file
\* is malformed.
Snapshot(h, f) ==
    [cafe |-> IF f.kind = "obj" THEN f.cafe ELSE EmptyCafe, histBad |-> Malformed(h)]

\* main(): load_history, the two parse_with_fallback calls, dedup,
\* save_history, update_price_summary.  An exception at any step ends the run
\* there (status names the step); the files written before it stay written.
Main(now, srcA, srcC) ==
    \E a \in {Collect(srcA, "arabica", now, 1)} :
    \E c \in {Collect(srcC, "conillon", now, 2)} :
    \E dd \in {dedup((IF load_history(histFile).list
                       THEN load_history(histFile).rows ELSE << >>)
                      \o a.rows \o c.rows)} :
    \E ups \in {update_price_summary(dd.rows, sumFile)} :
    \E fresh \in {dedup(a.rows \o c.rows)} :
       /\ pre' = Snapshot(histFile, sumFile)
       /\ UNCHANGED <<indexFile, rows, merged, fetchSt, lastCall, written>>
       /\ IF a.err
          THEN /\ status' = "fetch_failed"
               /\ cold' = FALSE
               /\ wrote' = NoRun
               /\ UNCHANGED <<histFile, sumFile>>
          ELSE IF c.err
          THEN /\ status' = "fetch_failed"
               /\ cold' = FALSE
               /\ wrote' = NoRun
               /\ UNCHANGED <<histFile, sumFile>>
          ELSE IF dd.err
          THEN /\ status' = "dedup_failed"
               /\ cold' = FALSE
               /\ wrote' = NoRun
               /\ UNCHANGED <<histFile, sumFile>>
          ELSE IF ups.err
          THEN /\ status' = "summary_failed"
               /\ cold' = (~fresh.err /\ fresh.rows = dd.rows)
               /\ histFile' = ListFile(dd.rows)
               /\ wrote' = [hist |-> TRUE, sum |-> FALSE]
               /\ UNCHANGED sumFile
          ELSE /\ status' = "ok"
               /\ cold' = (~fresh.err /\ fresh.rows = dd.rows)
               /\ histFile' = ListFile(dd.rows)
               /\ sumFile' = ups.file
               /\ wrote' = [hist |-> TRUE, sum |-> TRUE]

Run ==
    \E now \in Nows :
        \E srcA \in ArabicaSources(now) :
            \E srcC \in ConillonSources(now) : Main(now, srcA, srcC)

\* Between two runs the history file can be lost or left malformed (a crash in
\* the middle of json.dump, an edit by hand): the contents load_history and
\* main guard against, and a list whose element is no well-formed record.
\* A record of another product whose coletado_em is null, on the trading day
\* and under the tipo of a coffee record the arabica page can show.
OtherProductRow ==
    OfProduto(WithNull(Row("arabica", Some(1), Day(12), None), "coletado_em"),
              "cacau")

DamagedHistories ==
    {[rows |-> << >>, kind |-> "garbage"],
     [rows |-> << >>, kind |-> "undecodable"],
     [rows |-> << >>, kind |-> "nonlist"],
     [rows |-> << >>, kind |-> "empty_nonlist"],
     ListFile(<<NotADict>>),
     ListFile(<<Without(Row("arabica", Some(1), Day(11), None), "coletado_em")>>),
     ListFile(<<OtherProductRow>>)}

DamageHistory ==
    /\ histFile' \in DamagedHistories
    /\ status' = "damaged"
    /\ wrote' = NoRun
    /\ pre' = Snapshot(histFile', sumFile)
    /\ cold' = FALSE
    /\ UNCHANGED <<sumFile, indexFile, rows, merged, fetchSt, lastCall, written>>

\* The same for the summary file: the contents update_price_summary reads.
DamagedSummaries ==
    {NoSummary,
     [kind |-> "garbage", cafe |-> EmptyCafe, ultima_atualizacao |-> None],
     [kind |-> "nonobj", cafe |-> EmptyCafe, ultima_atualizacao |-> None]}

DamageSummary ==
    /\ sumFile' \in DamagedSummaries
    /\ status' = "damaged"
    /\ wrote' = NoRun
    /\ pre' = Snapshot(histFile, sumFile')
    /\ cold' = FALSE
    /\ UNCHANGED <<histFile, indexFile, rows, merged, fetchSt, lastCall, written>>

NoFetch == [i |-> 0, url |-> "", errs |-> << >>, last |-> None,
            result |-> None, slept |-> << >>, st |-> "idle"]

NoCall == [referente_a |-> None, arabica |-> None, conilon |-> None]

Init ==
    /\ histFile = MissingFile
    /\ sumFile = NoSummary
    /\ indexFile = NoIndex
    /\ status = "init"
    /\ wrote = NoRun
    /\ pre = Snapshot(MissingFile, NoSummary)
    /\ cold = FALSE
    /\ rows = << >>
    /\ merged = << >>
    /\ fetchSt = NoFetch
    /\ lastCall = NoCall
    /\ written = {}

Next == Run \/ DamageHistory \/ DamageSummary

\* The last step was a run of main that ended with an exception.
Aborted == status \in {"fetch_failed", "dedup_failed", "summary_failed"}

\* The last step was a run of main.
Ran == status = "ok" \/ Aborted

Spec == Init /\ [][Next]_vars

----------------------------------------------------------------------------
(* scrape_prices.py : update_prices, update_history, main *)

\* dates_sorted[:10]: the number of distinct dates the history keeps.
KeepDates == 10

DaysInMonth(m, y) ==
    IF m \in {4, 6, 9, 11} THEN 30
    ELSE IF m # 2 THEN 31
    ELSE IF y % 4 = 0 /\ (y % 100 # 0 \/ y % 400 = 0) THEN 29 ELSE 28

\* datetime.strptime(trade_date, "%d/%m/%Y") does not raise ValueError.
ValidWidgetDate(d) ==
    /\ Len(d) = 3
    /\ d[2] \in 1..12
    /\ d[1] \in 1..DaysInMonth(d[2], d[3])

\* Lines 186-191: the widget date as YYYY-MM-DD, or the day of the scrape when
\* the widget date does not parse.
ReferenteA(trade_date, collected) ==
    IF ValidWidgetDate(trade_date)
    THEN <<trade_date[3], trade_date[2], trade_date[1]>>
    ELSE Prefix10(collected)

\* update_prices: the whole file is written anew from the two prices (its
\* nested preco/unidade/peso_kg/moeda objects and the cacau placeholders are
\* constants of the code and are not represented).
update_prices(arabica_price, conilon_price, now) ==
    [kind |-> "obj",
     cafe |-> [arabica |-> Some(arabica_price), date |-> None,
               robusta |-> Some(conilon_price)],
     ultima_atualizacao |-> now]

\* Mutant: the entries already stored for the date are not removed.
KeepsRecordAlways(record, referente_a) == TRUE

\* The filter of lines 203-205: a record stays unless it is a cafe record of
\* the same referente_a.
KeepsRecord(record, referente_a) ==
    ~(record.referente_a = referente_a /\ record.produto = "cafe")

RECURSIVE FilterHistory(_, _)
FilterHistory(history, referente_a) ==
    IF history = << >> THEN << >>
    ELSE (IF KeepsRecord(Head(history), referente_a)
          THEN <<Head(history)>> ELSE << >>)
         \o FilterHistory(Tail(history), referente_a)

RECURSIVE InsertDescending(_, _)
InsertDescending(s, d) ==
    IF s = << >> THEN <<d>>
    ELSE IF StrLess(Head(s), d) THEN <<d>> \o s
    ELSE <<Head(s)>> \o InsertDescending(Tail(s), d)

\* sorted(by_date.keys(), reverse=True)
RECURSIVE SortedDescending(_)
SortedDescending(dates) ==
    IF dates = {} THEN << >>
    ELSE LET d == CHOOSE x \in dates : TRUE
         IN InsertDescending(SortedDescending(dates \ {d}), d)

\* dates_sorted[:n]
DatesDescending(dates, n) ==
    SubSeq(SortedDescending(dates), 1,
           IF Cardinality(dates) < n THEN Cardinality(dates) ELSE n)

\* by_date[d], sorted by tipo (sorted() is stable).
DayRecords(history, d) ==
    LET OfDay(r) == r.referente_a = d
        Rank0(r) == TipoRank(r.tipo) = 0
        Rank1(r) == TipoRank(r.tipo) = 1
        Rank2(r) == TipoRank(r.tipo) = 2
        day == SelectSeq(history, OfDay)
    IN SelectSeq(day, Rank0) \o SelectSeq(day, Rank1) \o SelectSeq(day, Rank2)

RECURSIVE Pruned(_, _)
Pruned(history, keep_dates) ==
    IF keep_dates = << >> THEN << >>
    ELSE DayRecords(history, Head(keep_dates))
         \o Pruned(history, Tail(keep_dates))

\* update_history on the history file f: [err, file].  json.JSONDecodeError
\* gives []; bytes that are not UTF-8 raise UnicodeDecodeError, which is not
\* caught; a JSON value that is no list makes the filter raise, but for {}
\* and "", over which it iterates nothing; an element that is no dict raises;
\* a record without referente_a raises KeyError; one whose referente_a is
\* null makes sorted() raise TypeError, its None meeting the date just added.
update_history(f, arabica_price, conilon_price, trade_date, collected) ==
    LET referente_a == ReferenteA(trade_date, collected)
        loaded == IF f.kind = "list" THEN f.rows ELSE << >>
        history ==
            FilterHistory(loaded, referente_a)
            \o <<Row("arabica", Some(arabica_price), referente_a, collected),
                 Row("conillon", Some(conilon_price), referente_a, collected)>>
        by_date == {history[i].referente_a : i \in 1..Len(history)}
    IN IF \/ f.kind \in {"undecodable", "nonlist"}
          \/ \E i \in 1..Len(loaded) : ~loaded[i].dict
          \/ \E i \in 1..Len(history) :
                 \/ Lacks(history[i], "referente_a")
                 \/ "referente_a" \in history[i].nulls
       THEN [err |-> TRUE, file |-> f]
       ELSE [err  |-> FALSE,
             file |-> ListFile(Pruned(history,
                                      DatesDescending(by_date, KeepDates)))]

\* f"{value:,.2f}" of a whole number with "," and "." exchanged: the groups of
\* three digits, then the cents: "R$ 2.270,00" is <<2, 270, 0>>.
RECURSIVE Thousands(_)
Thousands(n) ==
    IF n < 1000 THEN <<n>> ELSE Thousands(n \div 1000) \o <<n % 1000>>

format_brl(value) == Thousands(value) \o <<0>>

\* An index.html with the elements preco-arabica and preco-robusta, empty.
BlankIndex == [kind |-> "html", arabica |-> None, robusta |-> None]

\* update_index_html on index.html: [err, file].  A missing file is left
\* alone; bytes that are not UTF-8 make f.read() raise; otherwise the text of
\* the two elements is replaced and the page written back.
update_index_html(f, arabica_price, conilon_price) ==
    IF f.kind = "missing" THEN [err |-> FALSE, file |-> f]
    ELSE IF f.kind = "undecodable" THEN [err |-> TRUE, file |-> f]
    ELSE [err  |-> FALSE,
          file |-> [kind |-> "html",
                    arabica |-> format_brl(arabica_price),
                    robusta |-> format_brl(conilon_price)]]

\* Lines 289-292: the date handed to update_history.
TradeDate(date_arabica, date_conilon) ==
    IF StrLeq(date_conilon, date_arabica) THEN date_arabica ELSE date_conilon

\* main(): the two parse_price calls, update_prices, update_history,
\* update_index_html; an exception ends the run where it is raised.  ra and
\* rc are what the two widgets answer: [date, ok, price].
MainSimple(ra, rc, now) ==
    \E td \in {TradeDate(ra.date, rc.date)} :
    \E uh \in {update_history(histFile, ra.price, rc.price, td, now)} :
    \E ui \in {update_index_html(indexFile, ra.price, rc.price)} :
       /\ UNCHANGED <<pre, cold, rows, merged, fetchSt>>
       /\ IF ~ra.ok \/ ~rc.ok
          THEN /\ status' = "fetch_failed"
               /\ wrote' = NoRun
               /\ lastCall' = NoCall
               /\ UNCHANGED <<histFile, sumFile, indexFile, written>>
          ELSE /\ sumFile' = update_prices(ra.price, rc.price, now)
               /\ lastCall' = [referente_a |-> ReferenteA(td, now),
                               arabica |-> Some(ra.price),
                               conilon |-> Some(rc.price)]
               /\ IF uh.err
                  THEN /\ status' = "history_failed"
                       /\ wrote' = [hist |-> FALSE, sum |-> TRUE]
                       /\ UNCHANGED <<histFile, indexFile, written>>
                  ELSE /\ histFile' = uh.file
                       /\ wrote' = [hist |-> TRUE, sum |-> TRUE]
                       /\ written' = written \cup {ReferenteA(td, now)}
                       /\ indexFile' = ui.file
                       /\ status' = IF ui.err THEN "index_failed" ELSE "ok"

\* Bound of the model: the number of trading days the widgets can show.
NumDays == 11

\* The i-th trading day as the widget prints it: 27/08/2025 .. 31/08/2025,
\* 01/09/2025 ..
DayAt(i) == IF i <= 5 THEN <<26 + i, 8, 2025>> ELSE <<i - 5, 9, 2025>>

\* datetime.now() of the runs.
SimpleNow == <<2025, 9, 3, 10>>

Reading(date, price) == [date |-> date, price |-> price, ok |-> TRUE]

\* parse_price raised (the request failed, the table is missing).
NoReading == [date |-> None, price |-> 0, ok |-> FALSE]

\* What the arabica widget can answer: any trading day, a second quotation
\* for the last one, a date that strptime rejects, or nothing.
ArabicaReadings ==
    {Reading(DayAt(i), 2270) : i \in 1..NumDays}
        \cup {Reading(DayAt(NumDays), 2277), Reading(<<31, 9, 2025>>, 2270),
              NoReading}

\* The conilon widget shows the same trading day as the arabica widget, or
\* the one before it on the first two trading days of September (a lag across
\* the month change, and one within the month).
ConilonReadings(ra) ==
    IF ~ra.ok THEN {Reading(DayAt(1), 1290)}
    ELSE {Reading(ra.date, 1290)}
         \cup {Reading(DayAt(i - 1), 1290) :
                   i \in {j \in {6, 7} : DayAt(j) = ra.date}}

RunSimple ==
    \E ra \in ArabicaReadings :
        \E rc \in ConilonReadings(ra) : MainSimple(ra, rc, SimpleNow)

UndecodableIndex == [kind |-> "undecodable", arabica |-> None, robusta |-> None]

\* When the first run starts the history file is missing, empty, not UTF-8 or
\* holds {}, and index.html is a page with the two elements, or not UTF-8.
InitSimple ==
    /\ histFile \in {MissingFile} \cup
                    {[rows |-> << >>, kind |-> k] :
                        k \in {"garbage", "undecodable", "empty_nonlist"}}
    /\ indexFile \in {BlankIndex, UndecodableIndex}
    /\ sumFile = NoSummary
    /\ status = "init"
    /\ wrote = NoRun
    /\ pre = Snapshot(MissingFile, NoSummary)
    /\ cold = FALSE
    /\ rows = << >>
    /\ merged = << >>
    /\ fetchSt = NoFetch
    /\ lastCall = NoCall
    /\ written = {}

NextSimple == RunSimple

SpecSimple == InitSimple /\ [][NextSimple]_vars

----------------------------------------------------------------------------
(* Properties of the history-aware pipeline, checked under Spec *)

\* The effective date of a record, as the data model defines it.
IdentityDate(r) ==
    IF r.referente_a = None THEN Prefix10(r.coletado_em) ELSE r.referente_a

DatesOf(rs) == {IdentityDate(rs[i]) : i \in 1..Len(rs)}

\* The coffee records of a variant.
RowsOfTipo(rs, t) ==
    {rs[i] : i \in {j \in 1..Len(rs) : rs[j].produto = "cafe" /\ rs[j].tipo = t}}

\* The record of the set with the greatest effective date.
Newest(set) ==
    CHOOSE r \in set :
        \A q \in set : StrLeq(IdentityDate(q), IdentityDate(r))

\* C2: after every run that saved the history, the saved history holds at
\* most 10 distinct effective dates.
C2_RetentionBound ==
    wrote.hist => Cardinality(DatesOf(histFile.rows)) <= KeepDates

\* C3: once the summary holds a date, the date it holds after a later run is
\* never earlier.
C3_SummaryDateMonotone ==
    (status = "ok" /\ pre.cafe.date # None)
        => StrLeq(pre.cafe.date, sumFile.cafe.date)

\* C4: a run whose rows hold no record of a variant leaves the value the
\* summary file held for that variant unchanged (robusta for conillon,
\* arabica for arabica).
C4_LastKnownGood ==
    status = "ok" =>
        /\ RowsOfTipo(histFile.rows, "conillon") = {}
                => sumFile.cafe.robusta = pre.cafe.robusta
        /\ RowsOfTipo(histFile.rows, "arabica") = {}
                => sumFile.cafe.arabica = pre.cafe.arabica

\* C4 witness: a run with arabica rows only rewrote cafe.arabica and kept the
\* robusta value the file already held.
C4_Witness ==
    /\ status = "ok"
    /\ RowsOfTipo(histFile.rows, "conillon") = {}
    /\ RowsOfTipo(histFile.rows, "arabica") # {}
    /\ pre.cafe.robusta # None
    /\ sumFile.cafe.robusta = pre.cafe.robusta
    /\ sumFile.cafe.arabica # pre.cafe.arabica

\* C5: a run that starts from a malformed history file does not abort in the
\* merge, and the history it saves is the merge of the new candidates alone.
C5_MalformedHistoryNotFatal ==
    (pre.histBad /\ Ran) => (status # "dedup_failed" /\ (wrote.hist => cold))

\* C6: a run that aborts has rewritten neither file, and no run ends with one
\* file rewritten and the other not.
C6_NoPartialWrite ==
    Ran => /\ Aborted => (~wrote.hist /\ ~wrote.sum)
           /\ wrote.hist = wrote.sum

\* C8: after a run, each variant's value in the summary is the valor of that
\* variant's record with the greatest effective date, and the top-level date
\* is the greatest effective date of all records, also when the variants'
\* latest dates differ.
C8_SummarizeResult ==
    status = "ok" =>
        LET a == RowsOfTipo(histFile.rows, "arabica")
            c == RowsOfTipo(histFile.rows, "conillon")
        IN /\ a # {} => sumFile.cafe.arabica = Newest(a).valor
           /\ c # {} => sumFile.cafe.robusta = Newest(c).valor
           /\ (a \cup c) # {}
                => sumFile.cafe.date = IdentityDate(Newest(a \cup c))

\* C8 witness: a run summarised a history in which arabica has several dates
\* and the two variants' latest dates differ.
C8_Witness ==
    /\ status = "ok"
    /\ Cardinality(RowsOfTipo(histFile.rows, "arabica")) > 1
    /\ RowsOfTipo(histFile.rows, "conillon") # {}
    /\ IdentityDate(Newest(RowsOfTipo(histFile.rows, "arabica")))
         # IdentityDate(Newest(RowsOfTipo(histFile.rows, "conillon")))
    /\ sumFile.cafe.robusta = Newest(RowsOfTipo(histFile.rows, "conillon")).valor

----------------------------------------------------------------------------
(* dedup as a function: SpecDedup applies it to every bounded input *)

\* Bound of the model: the length of dedup's input.
MaxRows == 3

DedupTimes == {<<2025, 9, 4, 10>>, <<2025, 9, 4, 18>>, <<2025, 9, 5, 10>>}

DedupRefs == {None, <<2025, 9, 4>>, <<2025, 9, 5>>}

\* The rows dedup is applied to: every variant, reference date (or none) and
\* collection time, one dict that lacks coletado_em, one whose coletado_em
\* is null, one whose coletado_em is "" and that has no reference date, and
\* records of another product on a date and tipo the coffee records have, one
\* of them with a null coletado_em.
DedupRows ==
    {Row(t, Some(1), ref, col) : t \in Tipos, ref \in DedupRefs, col \in DedupTimes}
        \cup {Without(Row("arabica", Some(1), <<2025, 9, 4>>, None), "coletado_em"),
              WithNull(Row("arabica", Some(1), <<2025, 9, 4>>, None), "coletado_em"),
              Row("arabica", Some(1), None, << >>),
              OfProduto(Row("arabica", Some(1), <<2025, 9, 4>>,
                            <<2025, 9, 4, 10>>), "cacau"),
              OfProduto(Row("arabica", Some(1), <<2025, 9, 4>>,
                            <<2025, 9, 4, 18>>), "cacau"),
              OfProduto(WithNull(Row("arabica", Some(1), <<2025, 9, 4>>, None),
                                 "coletado_em"), "cacau")}

SeqsUpTo(S, n) == UNION {[1..k -> S] : k \in 0..n}

InitDedup ==
    /\ rows \in SeqsUpTo(DedupRows, MaxRows)
    /\ merged = << >>
    /\ status = "input"
    /\ histFile = MissingFile
    /\ sumFile = NoSummary
    /\ indexFile = NoIndex
    /\ wrote = NoRun
    /\ pre = Snapshot(MissingFile, NoSummary)
    /\ cold = FALSE
    /\ fetchSt = NoFetch
    /\ lastCall = NoCall
    /\ written = {}

ApplyDedup ==
    /\ status = "input"
    /\ merged' = dedup(rows).rows
    /\ status' = IF dedup(rows).err THEN "dedup_failed" ELSE "deduped"
    /\ UNCHANGED <<rows, histFile, sumFile, indexFile, wrote, pre, cold, fetchSt, lastCall, written>>

NextDedup == ApplyDedup

SpecDedup == InitDedup /\ [][NextDedup]_vars

\* The identity key of a record, as the data model defines it.
IdentityKey(r) == <<r.produto, r.tipo, IdentityDate(r)>>

SameKey(rs, r) == {q \in SeqToSet(rs) : IdentityKey(q) = IdentityKey(r)}

\* C1: the result of the merge holds exactly one row per identity key of the
\* input, that row is an input row of the key with the greatest coletado_em,
\* and no two rows of the result share a key.
C1_OneRowPerKey ==
    status = "deduped" =>
        /\ \A i, j \in 1..Len(merged) :
               i # j => IdentityKey(merged[i]) # IdentityKey(merged[j])
        /\ \A j \in 1..Len(merged) : merged[j] \in SeqToSet(rows)
        /\ \A i \in 1..Len(rows) :
               \E j \in 1..Len(merged) :
                   /\ IdentityKey(merged[j]) = IdentityKey(rows[i])
                   /\ \A q \in SameKey(rows, rows[i]) :
                          StrLeq(q.coletado_em, merged[j].coletado_em)

\* C1 witness: two input rows shared a key (one of them undated), the later
\* collected one came last and survived, and a row of another product with
\* the same variant and date was kept beside it.
C1_Witness ==
    /\ status = "deduped"
    /\ Len(rows) = 3
    /\ Len(merged) = 2
    /\ IdentityKey(rows[1]) = IdentityKey(rows[2])
    /\ rows[1].referente_a # rows[2].referente_a
    /\ StrLess(rows[1].coletado_em, rows[2].coletado_em)
    /\ rows[3].produto # rows[1].produto
    /\ rows[3].tipo = rows[1].tipo
    /\ IdentityDate(rows[3]) = IdentityDate(rows[1])
    /\ SeqToSet(merged) = {rows[2], rows[3]}

\* One record per identity key.
Deduplicated(rs) ==
    \A i, j \in 1..Len(rs) : i # j => IdentityKey(rs[i]) # IdentityKey(rs[j])

\* Ascending by (effective_date, variant, collected_at).
EffectiveOrderLess(x, y) ==
    \/ StrLess(IdentityDate(x), IdentityDate(y))
    \/ /\ IdentityDate(x) = IdentityDate(y)
       /\ \/ TipoRank(x.tipo) < TipoRank(y.tipo)
          \/ x.tipo = y.tipo /\ StrLess(x.coletado_em, y.coletado_em)

InEffectiveOrder(rs) ==
    \A i \in 1..(Len(rs) - 1) : ~EffectiveOrderLess(rs[i + 1], rs[i])

\* C7: merging nothing into a history that is deduplicated, within the
\* retention window and ascending by (effective_date, variant, collected_at)
\* returns the same history, in the same order.
C7_IdempotentEffectiveOrder ==
    (/\ status = "deduped"
     /\ Deduplicated(rows)
     /\ Cardinality(DatesOf(rows)) <= KeepDates
     /\ InEffectiveOrder(rows)) => merged = rows

----------------------------------------------------------------------------
(* coletar_cafe_cepea.py : fetch *)

\* retries: int = 3
Retries == 3

\* backoff: float = 1.5, in tenths of a second
BackoffTenths == 15

\* Mutant: the same delay after every failed attempt.
SleepAfterConstant(i) == BackoffTenths

\* time.sleep(backoff * (i+1)), in tenths of a second
SleepAfter(i) == BackoffTenths * (i + 1)

Urls == {"ARABICA_URL", "CONILLON_URL"}

\* What requests.get / raise_for_status can raise.
FetchErrors == {"Timeout", "ConnectionError", "HTTPError"}

PageOf(url) == <<"html", url>>

InitFetch ==
    /\ fetchSt \in {[i |-> 0, url |-> u, errs |-> << >>, last |-> None,
                      result |-> None, slept |-> << >>, st |-> "running"] : u \in Urls}
    /\ histFile = MissingFile
    /\ sumFile = NoSummary
    /\ indexFile = NoIndex
    /\ status = "init"
    /\ wrote = NoRun
    /\ pre = Snapshot(MissingFile, NoSummary)
    /\ cold = FALSE
    /\ rows = << >>
    /\ merged = << >>
    /\ lastCall = NoCall
    /\ written = {}

\* Iteration i of the loop: requests.get and raise_for_status succeed, and
\* fetch returns r.text.
AttemptSucceeds ==
    /\ fetchSt.st = "running"
    /\ fetchSt.i < Retries
    /\ fetchSt' = [fetchSt EXCEPT !.st = "returned",
                                   !.result = PageOf(fetchSt.url)]
    /\ UNCHANGED <<histFile, sumFile, indexFile, status, wrote, pre, cold, rows, merged,
                   lastCall, written>>

\* Iteration i of the loop: the attempt raises e; last = e, then the sleep.
AttemptFails ==
    /\ fetchSt.st = "running"
    /\ fetchSt.i < Retries
    /\ \E e \in FetchErrors :
           fetchSt' = [fetchSt EXCEPT !.last = <<e>>,
                                      !.errs = Append(@, e),
                                      !.slept = Append(@, SleepAfter(fetchSt.i)),
                                      !.i = @ + 1]
    /\ UNCHANGED <<histFile, sumFile, indexFile, status, wrote, pre, cold, rows, merged,
                   lastCall, written>>

\* The loop is over: raise last.
RaiseLast ==
    /\ fetchSt.st = "running"
    /\ fetchSt.i >= Retries
    /\ fetchSt' = [fetchSt EXCEPT !.st = "raised", !.result = fetchSt.last]
    /\ UNCHANGED <<histFile, sumFile, indexFile, status, wrote, pre, cold, rows, merged,
                   lastCall, written>>

NextFetch == AttemptSucceeds \/ AttemptFails \/ RaiseLast

\* The loop runs on its own: requests.get has a timeout and the sleeps end.
SpecFetch == InitFetch /\ [][NextFetch]_vars /\ WF_vars(NextFetch)

FetchDone == fetchSt.st \in {"returned", "raised"}

\* The state part of C9.
FetchProtocol ==
    /\ Len(fetchSt.errs) <= Retries
    /\ Len(fetchSt.slept) = Len(fetchSt.errs)
    /\ \A k \in 1..Len(fetchSt.slept) : fetchSt.slept[k] = k * BackoffTenths
    /\ fetchSt.st = "returned"
          => /\ Len(fetchSt.errs) < Retries
             /\ fetchSt.result = PageOf(fetchSt.url)
    /\ fetchSt.st = "raised"
          => /\ Len(fetchSt.errs) = Retries
             /\ fetchSt.result = <<fetchSt.errs[Retries]>>
    /\ Len(fetchSt.errs) = Retries => fetchSt.st # "returned"
    /\ FetchDone => ~ENABLED NextFetch

\* C9: fetch makes at most Retries attempts, returns the page at the first
\* attempt that succeeds and makes no attempt after it, sleeps k * backoff
\* after the k-th failed attempt, raises the last error exactly when all
\* attempts failed, and always ends with a result or an error.
C9_FetchRetryProtocol == [](FetchProtocol) /\ <>FetchDone

\* C9 witness: the third attempt succeeded after two failures and the sleeps
\* of 1.5 s and 3.0 s.
C9_Witness ==
    /\ fetchSt.st = "returned"
    /\ Len(fetchSt.errs) = 2
    /\ fetchSt.slept = <<15, 30>>

----------------------------------------------------------------------------
(* Properties of the simple pipeline, checked under SpecSimple *)

\* The n greatest elements of a set of dates.
RECURSIVE Latest(_, _)
Latest(dates, n) ==
    IF dates = {} \/ n = 0 THEN {}
    ELSE LET m == CHOOSE d \in dates : \A e \in dates : ~StrLess(d, e)
         IN {m} \cup Latest(dates \ {m}, n - 1)

EntriesOf(d) == {i \in 1..Len(histFile.rows) : histFile.rows[i].referente_a = d}

\* C10: the history file holds the ten most recent dates ever written (at
\* most ten), each with exactly two entries, one arabica and one conillon,
\* and the entries of the date just written are those of the last call.
C10_RollingHistory ==
    LET dates == {histFile.rows[i].referente_a : i \in 1..Len(histFile.rows)}
    IN /\ Cardinality(dates) <= 10
       /\ dates = Latest(written, 10)
       /\ \A d \in dates :
             /\ Cardinality(EntriesOf(d)) = 2
             /\ {histFile.rows[i].tipo : i \in EntriesOf(d)} = Tipos
       /\ wrote.hist =>
             \A i \in EntriesOf(lastCall.referente_a) :
                /\ histFile.rows[i].tipo = "arabica"
                      => histFile.rows[i].valor = lastCall.arabica
                /\ histFile.rows[i].tipo = "conillon"
                      => histFile.rows[i].valor = lastCall.conilon

\* C10 witness: eleven dates have been written, ten are kept, and the
\* entries of the date of the last call carry its second arabica quotation.
C10_Witness ==
    /\ status = "ok"
    /\ Cardinality(written) = 11
    /\ Len(histFile.rows) = 20
    /\ lastCall.arabica = <<2277>>
    /\ \E i \in EntriesOf(lastCall.referente_a) :
           histFile.rows[i].valor = <<2277>>

----------------------------------------------------------------------------
(* scrape_prices.py : the trade date main() hands to update_history *)

\* The dates the two widgets can show: the trading days of the simple
\* pipeline (27/08/2025 onwards, across the month change) and the two days
\* around the change of year.
WidgetDates ==
    {DayAt(i) : i \in 1..NumDays} \cup {<<31, 12, 2025>>, <<1, 1, 2026>>}

InitTradeDate ==
    /\ rows \in WidgetDates \X WidgetDates
    /\ merged = << >>
    /\ status = "input"
    /\ histFile = MissingFile
    /\ sumFile = NoSummary
    /\ indexFile = NoIndex
    /\ wrote = NoRun
    /\ pre = Snapshot(MissingFile, NoSummary)
    /\ cold = FALSE
    /\ fetchSt = NoFetch
    /\ lastCall = NoCall
    /\ written = {}

\* Line 292 applied to <<date_arabica, date_conilon>>.
SelectTradeDate ==
    /\ status = "input"
    /\ merged' = TradeDate(rows[1], rows[2])
    /\ status' = "selected"
    /\ UNCHANGED <<rows, histFile, sumFile, indexFile, wrote, pre, cold, fetchSt, lastCall, written>>

NextTradeDate == SelectTradeDate

SpecTradeDate == InitTradeDate /\ [][NextTradeDate]_vars

\* A dd/mm/YYYY date as strptime("%d/%m/%Y") reads it: year, month, day.
Chronological(d) == <<d[3], d[2], d[1]>>

\* The chronologically later of two dates.
LaterDate(a, b) ==
    IF StrLess(Chronological(a), Chronological(b)) THEN b ELSE a

\* C11: the date main() hands to update_history is the chronologically most
\* recent of the two widget dates, for every pair of valid dates.
C11_MostRecentTradeDate ==
    status = "selected" => merged = LaterDate(rows[1], rows[2])

====
